---------------------------- MODULE Spec2Model ----------------------------
(***************************************************************************)
(* A model of sbvm (src/sbvm.c): a stack-based byte-code virtual machine.  *)
(* The harness (main) assembles a byte sequence into a CodeSegment with    *)
(* code_segment_write, initialises a VM over it and calls vm_run, whose    *)
(* fetch/decode/dispatch loop is modelled one loop iteration per step.     *)
(* main writes one fixed program; the model lets the harness write any     *)
(* byte sequence of the families described under "The harness" below.     *)
(* The call stack functions, which nothing in the program calls, are       *)
(* driven by a specification of their own, CallSpec.                       *)
(***************************************************************************)
EXTENDS Integers, Sequences, FiniteSets, TLC

VARIABLES
  pc,         \* position of the process: see PcValues
  seg,        \* CodeSegment: [code, length, capacity]
  stack,      \* vm.stack: [data, top]
  running,    \* vm.running
  ip,         \* vm_run's local instruction pointer
  out,        \* lines written to stdout, in order
  err,        \* lines written to stderr, in order
  exit_code,  \* process exit status, NotExited while the process lives
  fetched,    \* history: the offsets vm_run has fetched opcodes from
  cs,         \* CallStack: [frames, count]
  frame,      \* <<the CallFrame call_stack_pop returned last>>, or <<>>
  call,       \* history: the last call of code_segment_write or of a
              \* call_stack_* function, with its arguments
  pushed      \* history: the frames pushed and not yet popped, oldest first

\* The variables of the call stack and of its driver.
cvars == <<cs, frame, call, pushed>>

vars == <<pc, seg, stack, running, ip, out, err, exit_code, fetched, cvars>>

-----------------------------------------------------------------------------
(* Bounds of the model *)

\* Longest byte sequence of arbitrary bytes the harness writes.
MaxLen == 2

\* Most instructions in a program assembled from AsmOpcodes.
MaxInstr == 3

\* The capacity of the call stack.  The source defines 256 (line 91); as
\* with the operand stack the model checks a scaled-down array.
CALL_STACK_MAX == 3

\* The capacity of the operand stack.  The source defines 1024 (line 41);
\* the model checks a scaled-down array, which a program of a few bytes
\* fills, and every use of the capacity goes through this name.
STACK_MAX_SIZE == 4

-----------------------------------------------------------------------------
(* enum OpCode *)

OP_NOP == 0
OP_PUSH == 1
OP_POP == 2
OP_DUP == 3
OP_SWAP == 4
OP_ADD == 5
OP_SUB == 6
OP_MUL == 7
OP_DIV == 8
OP_JMP == 9
OP_JZ == 10
OP_JNZ == 11
OP_CALL == 12
OP_RET == 13
OP_LOAD == 14
OP_STORE == 15
OP_PRINT == 16
OP_STOP == 17

\* The opcodes that have a case in vm_run's switch.
Implemented ==
  {OP_NOP, OP_PUSH, OP_POP, OP_DUP, OP_SWAP, OP_ADD, OP_SUB, OP_MUL, OP_DIV,
   OP_PRINT, OP_STOP}


UINT8_MAX == 255

INT32_MAX == 2147483647

INT32_MIN == -INT32_MAX - 1

-----------------------------------------------------------------------------
(* int32_t arithmetic.  The model checker's integers are themselves 32 bits *)
(* wide, so overflow is detected before it happens and the wrapped result  *)
(* is computed bytewise.                                                    *)

Abs(v) == IF v < 0 THEN -v ELSE v

\* a + b does not fit an int32_t
AddOverflows(a, b) ==
  \/ b > 0 /\ a > INT32_MAX - b
  \/ b < 0 /\ a < INT32_MIN - b

\* a - b does not fit an int32_t
SubOverflows(a, b) ==
  \/ b < 0 /\ a > INT32_MAX + b
  \/ b > 0 /\ a < INT32_MIN + b

\* a * b does not fit an int32_t
MulOverflows(a, b) ==
  IF a = 0 \/ b = 0 THEN FALSE
  ELSE IF a = INT32_MIN THEN b # 1
  ELSE IF b = INT32_MIN THEN a # 1
  ELSE IF (a > 0) = (b > 0) THEN Abs(a) > INT32_MAX \div Abs(b)
  ELSE LET neg == IF a < 0 THEN a ELSE b
           pos == IF a < 0 THEN b ELSE a
       IN  neg < (INT32_MIN + pos - 1) \div pos

\* a / b does not fit an int32_t (b # 0)
DivOverflows(a, b) == a = INT32_MIN /\ b = -1

\* Byte k (0 = least significant) of the two's complement form of v.
ByteOf(v, k) ==
  CASE k = 0 -> v % 256
    [] k = 1 -> (v \div 256) % 256
    [] k = 2 -> (v \div 65536) % 256
    [] k = 3 -> (v \div 16777216) % 256

\* The int32_t whose two's complement bytes are b0 (least) .. b3.
FromBytes(b0, b1, b2, b3) ==
  (IF b3 >= 128 THEN b3 - 256 ELSE b3) * 16777216 + b2 * 65536 + b1 * 256 + b0

\* Mutant: the addition subtracts.
WrapAdd_Subtracts(a, b) == IF SubOverflows(a, b) THEN 0 ELSE a - b

\* a + b reduced modulo 2^32 into int32_t.
WrapAdd(a, b) ==
  IF ~AddOverflows(a, b) THEN a + b
  ELSE IF a > 0 THEN (a + INT32_MIN) + (b + INT32_MIN)
  ELSE (a - INT32_MIN) + (b - INT32_MIN)

\* Mutant: the operands of the subtraction are exchanged.
WrapSub_Swapped(a, b) == IF SubOverflows(b, a) THEN 0 ELSE b - a

\* a - b reduced modulo 2^32 into int32_t.
WrapSub(a, b) ==
  IF ~SubOverflows(a, b) THEN a - b
  ELSE IF b < 0 THEN (a + INT32_MIN) - (b - INT32_MIN)
  ELSE (a - INT32_MIN) - (b + INT32_MIN)

\* a * b reduced modulo 2^32 into int32_t (schoolbook product of the bytes).
WrapMul(a, b) ==
  IF ~MulOverflows(a, b) THEN a * b
  ELSE LET t0 == ByteOf(a, 0) * ByteOf(b, 0)
           t1 == ByteOf(a, 0) * ByteOf(b, 1) + ByteOf(a, 1) * ByteOf(b, 0)
                   + t0 \div 256
           t2 == ByteOf(a, 0) * ByteOf(b, 2) + ByteOf(a, 1) * ByteOf(b, 1)
                   + ByteOf(a, 2) * ByteOf(b, 0) + t1 \div 256
           t3 == ByteOf(a, 0) * ByteOf(b, 3) + ByteOf(a, 1) * ByteOf(b, 2)
                   + ByteOf(a, 2) * ByteOf(b, 1) + ByteOf(a, 3) * ByteOf(b, 0)
                   + t2 \div 256
       IN  FromBytes(t0 % 256, t1 % 256, t2 % 256, t3 % 256)

\* C's a / b for b # 0: the quotient truncated toward zero.
CDiv(a, b) ==
  IF DivOverflows(a, b) THEN INT32_MIN
  ELSE IF a = INT32_MIN
  THEN (IF b > 0 THEN -1 ELSE 1) * ((INT32_MAX \div Abs(b))
         + (IF (INT32_MAX % Abs(b)) + 1 = Abs(b) THEN 1 ELSE 0))
  ELSE IF b = INT32_MIN THEN 0
  ELSE IF (a >= 0) = (b > 0) THEN Abs(a) \div Abs(b)
  ELSE -(Abs(a) \div Abs(b))


\* (uint32_t) of an int32_t, kept as its two 16-bit halves.
ToUint32(v) == [hi |-> (v \div 65536) % 65536, lo |-> v % 65536]

\* (int32_t) of a uint32_t, and the int that printf's %d reads from one.
ToInt32(u) == (IF u.hi >= 32768 THEN u.hi - 65536 ELSE u.hi) * 65536 + u.lo

-----------------------------------------------------------------------------
(* Stack: int32_t data[STACK_MAX_SIZE]; int32_t top.  data holds the slots *)
(* written so far; the others are uninitialised memory.                    *)

NoFault == "none"

\* data with slot i set to val
Store(data, i, val) ==
  [j \in (DOMAIN data) \cup {i} |-> IF j = i THEN val ELSE data[j]]

stack_init(s) == [s EXCEPT !.top = -1]

stack_isEmpty(s) == s.top = -1

\* Mutant: the capacity test is off by one.
stack_isFull_OffByOne(s) == s.top >= STACK_MAX_SIZE

stack_isFull(s) == s.top >= STACK_MAX_SIZE - 1

\* Mutant: the value is stored before the capacity is tested.
stack_push_StoresFirst(s, val) ==
  [stack |-> [data |-> Store(s.data, s.top + 1, val),
              top |-> IF stack_isFull(s) THEN s.top ELSE s.top + 1],
   fault |-> IF stack_isFull(s) THEN "Stack overflow " ELSE NoFault]

\* [stack, fault]: fault # NoFault is the line printed before exit(1)
stack_push(s, val) ==
  IF stack_isFull(s)
  THEN [stack |-> s, fault |-> "Stack overflow "]
  ELSE [stack |-> [data |-> Store(s.data, s.top + 1, val), top |-> s.top + 1],
        fault |-> NoFault]

\* Mutant: top retreats before the emptiness test.
stack_pop_RetreatsFirst(s) ==
  IF stack_isEmpty(s)
  THEN [stack |-> [s EXCEPT !.top = s.top - 1], val |-> 0,
        fault |-> "Stack Underflow "]
  ELSE [stack |-> [s EXCEPT !.top = s.top - 1], val |-> s.data[s.top],
        fault |-> NoFault]

\* Mutant: the pop returns the top value and leaves top where it was.
stack_pop_NoRetreat(s) ==
  IF stack_isEmpty(s)
  THEN [stack |-> s, val |-> 0, fault |-> "Stack Underflow "]
  ELSE [stack |-> s, val |-> s.data[s.top], fault |-> NoFault]

\* [stack, val, fault]
stack_pop(s) ==
  IF stack_isEmpty(s)
  THEN [stack |-> s, val |-> 0, fault |-> "Stack Underflow "]
  ELSE [stack |-> [s EXCEPT !.top = s.top - 1], val |-> s.data[s.top],
        fault |-> NoFault]

\* Mutant: the peek removes the value it returns.
stack_peek_Removes(s) ==
  IF s.top < 0
  THEN [stack |-> s, val |-> 0, fault |-> "Empty Stack "]
  ELSE [stack |-> [s EXCEPT !.top = s.top - 1], val |-> s.data[s.top],
        fault |-> NoFault]

\* [stack, val, fault]
stack_peek(s) ==
  IF s.top < 0
  THEN [stack |-> s, val |-> 0, fault |-> "Empty Stack "]
  ELSE [stack |-> s, val |-> s.data[s.top], fault |-> NoFault]

vm_push(s, val) == stack_push(s, val)

\* uint32_t vm_pop: the popped int32_t converted to uint32_t
vm_pop(s) ==
  LET r == stack_pop(s)
  IN  [stack |-> r.stack, val |-> ToUint32(r.val), fault |-> r.fault]

-----------------------------------------------------------------------------
(* CallStack: CallFrame frames[CALL_STACK_MAX]; int32_t count.  frames     *)
(* holds the slots written so far, as data does for Stack.                 *)

\* A CallFrame
CallFrame(return_addr, frame_pointer) ==
  [return_addr |-> return_addr, frame_pointer |-> frame_pointer]

call_stack_init(c) == [c EXCEPT !.count = 0]

\* Mutant: the capacity test is off by one.
call_stack_push_OffByOne(c, return_addr, frame_pointer) ==
  IF c.count > CALL_STACK_MAX
  THEN [cs |-> c, fault |-> "Call stack overflow"]
  ELSE [cs |-> [frames |-> Store(c.frames, c.count,
                                 CallFrame(return_addr, frame_pointer)),
                count |-> c.count + 1],
        fault |-> NoFault]

\* [cs, fault]: fault # NoFault is the line printed before exit(1)
call_stack_push(c, return_addr, frame_pointer) ==
  IF c.count >= CALL_STACK_MAX
  THEN [cs |-> c, fault |-> "Call stack overflow"]
  ELSE [cs |-> [frames |-> Store(c.frames, c.count,
                                 CallFrame(return_addr, frame_pointer)),
                count |-> c.count + 1],
        fault |-> NoFault]

\* [cs, frame, fault]: frame is <<the CallFrame returned>>, <<>> on a fault
call_stack_pop(c) ==
  IF c.count <= 0
  THEN [cs |-> c, frame |-> <<>>, fault |-> "Call stack underflow"]
  ELSE [cs |-> [c EXCEPT !.count = c.count - 1],
        frame |-> <<c.frames[c.count - 1]>>,
        fault |-> NoFault]

-----------------------------------------------------------------------------
(* CodeSegment: code is the bytes written so far, indexed from 0.  The     *)
(* rest of the allocation is uninitialised.                                *)

NoBytes == [i \in {} |-> 0]

code_segment_init(initial_capacity) ==
  [code |-> NoBytes, length |-> 0, capacity |-> initial_capacity]

\* Mutant: the grown buffer is a new one, zeroed: the bytes written are lost.
code_segment_write_DropsOnGrowth(s, byte) ==
  LET grows == s.length >= s.capacity
  IN  [code |-> [i \in 0 .. s.length |->
                   IF i = s.length THEN byte
                   ELSE IF grows THEN 0 ELSE s.code[i]],
       length |-> s.length + 1,
       capacity |-> IF grows THEN s.capacity * 2 ELSE s.capacity]

\* Mutant: the buffer grows only once length has passed capacity.
code_segment_write_GrowsLate(s, byte) ==
  LET capacity == IF s.length > s.capacity THEN s.capacity * 2 ELSE s.capacity
  IN  [code |-> [i \in 0 .. s.length |->
                   IF i = s.length THEN byte ELSE s.code[i]],
       length |-> s.length + 1,
       capacity |-> capacity]

code_segment_write(s, byte) ==
  LET capacity == IF s.length >= s.capacity THEN s.capacity * 2 ELSE s.capacity
  IN  [code |-> [i \in 0 .. s.length |->
                   IF i = s.length THEN byte ELSE s.code[i]],
       length |-> s.length + 1,
       capacity |-> capacity]

-----------------------------------------------------------------------------
(* The harness.  main (lines 249-308) writes one fixed program; here it    *)
(* may write any program of three families: every byte sequence of at most *)
(* MaxLen bytes over RawBytes, every sequence of at most MaxInstr          *)
(* instructions over AsmOpcodes with PUSH immediates from AsmOperands, and *)
(* the fixed programs of Scenarios.                                        *)

\* The 0-based byte array holding the bytes of the tuple t.
Bytes0(t) == [i \in 0 .. Len(t) - 1 |-> t[i + 1]]

\* Every opcode of the enumeration, the first byte past it, and 0xFF.
RawBytes == (OP_NOP .. OP_STOP + 1) \cup {UINT8_MAX}

\* The implemented opcodes, one declared without a case, one undeclared.
AsmOpcodes == Implemented \cup {OP_JZ, OP_STOP + 1}

\* PUSH immediates: the numbers of OP_NOP, OP_DIV and OP_STOP.
AsmOperands == {OP_NOP, OP_DIV, OP_STOP}

\* The program main writes (lines 253-297).
MainProgram == Bytes0(<<OP_PUSH, 5, OP_PUSH, 4, OP_ADD, OP_PRINT, OP_STOP>>)

DivZeroProgram == Bytes0(<<OP_PUSH, 10, OP_PUSH, 0, OP_DIV, OP_PRINT, OP_STOP>>)

\* (2 - 7) / 2: a negative dividend
NegDivProgram == Bytes0(<<OP_PUSH, 2, OP_PUSH, 7, OP_SUB, OP_PUSH, 2, OP_DIV>>)

\* 255^4 exceeds INT32_MAX
MulOverflowProgram == Bytes0(<<OP_PUSH, UINT8_MAX, OP_DUP, OP_MUL, OP_DUP, OP_MUL>>)

\* STACK_MAX_SIZE + 1 pushes; the k-th (from 0) pushes k % 256
PushProgram ==
  [i \in 0 .. 2 * (STACK_MAX_SIZE + 1) - 1 |->
     IF i % 2 = 0 THEN OP_PUSH ELSE (i \div 2) % (UINT8_MAX + 1)]

JzTakenProgram == Bytes0(<<OP_PUSH, 0, OP_JZ, 5, OP_STOP, OP_NOP, OP_STOP>>)

JzNotTakenProgram == Bytes0(<<OP_PUSH, 7, OP_JZ, 5, OP_STOP, OP_NOP, OP_STOP>>)

JnzTakenProgram == Bytes0(<<OP_PUSH, 7, OP_JNZ, 5, OP_STOP, OP_NOP, OP_STOP>>)

JnzNotTakenProgram == Bytes0(<<OP_PUSH, 0, OP_JNZ, 5, OP_STOP, OP_NOP, OP_STOP>>)

CallRetProgram == Bytes0(<<OP_PUSH, 7, OP_CALL, 5, OP_STOP, OP_RET>>)

\* -(128 * 128 * 128 * 128 * 4) * 2 is INT32_MIN, 0 - 1 is -1: the quotient
\* INT32_MIN / -1 exceeds INT32_MAX
DivOverflowProgram ==
  Bytes0(<<OP_PUSH, 128, OP_DUP, OP_MUL, OP_DUP, OP_MUL, OP_PUSH, 4, OP_MUL,
           OP_PUSH, 0, OP_SWAP, OP_SUB, OP_PUSH, 2, OP_MUL,
           OP_PUSH, 0, OP_PUSH, 1, OP_SUB, OP_DIV, OP_PRINT, OP_STOP>>)

\* Two SWAPs in a row over three values, then a SWAP over one value.
SwapProgram ==
  Bytes0(<<OP_PUSH, 1, OP_PUSH, 2, OP_PUSH, 3, OP_SWAP, OP_SWAP,
           OP_POP, OP_POP, OP_SWAP>>)

\* PUSH 7, then STACK_MAX_SIZE DUPs: the last one meets a full stack.
DupProgram ==
  [i \in 0 .. STACK_MAX_SIZE + 1 |->
     IF i = 0 THEN OP_PUSH ELSE IF i = 1 THEN 7 ELSE OP_DUP]

Scenarios ==
  {MainProgram, DivZeroProgram, NegDivProgram, MulOverflowProgram, PushProgram,
   JzTakenProgram, JzNotTakenProgram, JnzTakenProgram, JnzNotTakenProgram,
   CallRetProgram, DivOverflowProgram, SwapProgram, DupProgram}

SizeOf(c) == Cardinality(DOMAIN c)

\* c is the first SizeOf(c) bytes of program P
IsPrefix(c, P) ==
  /\ SizeOf(c) <= SizeOf(P)
  /\ \A i \in DOMAIN c : c[i] = P[i]

\* The offsets of c[i ..] that hold opcodes when c is decoded linearly.
RECURSIVE OpcodeOffsets(_, _)
OpcodeOffsets(c, i) ==
  IF i \notin DOMAIN c THEN {}
  ELSE {i} \cup OpcodeOffsets(c, IF c[i] = OP_PUSH THEN i + 2 ELSE i + 1)

IsRaw(c) ==
  /\ SizeOf(c) <= MaxLen
  /\ \A i \in DOMAIN c : c[i] \in RawBytes

IsAsm(c) ==
  /\ SizeOf(c) <= 2 * MaxInstr
  /\ LET ops == OpcodeOffsets(c, 0)
     IN  /\ Cardinality(ops) <= MaxInstr
         /\ \A i \in DOMAIN c :
              IF i \in ops THEN c[i] \in AsmOpcodes ELSE c[i] \in AsmOperands

\* c with byte b written after it
Extended(c, b) ==
  LET n == SizeOf(c) IN [i \in 0 .. n |-> IF i = n THEN b ELSE c[i]]

\* The bytes the harness may write next to a segment holding the n bytes c.
NextBytes(c, n) ==
  (IF n < MaxLen THEN {b \in RawBytes : IsRaw(Extended(c, b))} ELSE {})
    \cup (IF n < 2 * MaxInstr
          THEN {b \in AsmOpcodes \cup AsmOperands : IsAsm(Extended(c, b))}
          ELSE {})
    \cup {P[n] : P \in {Q \in Scenarios : n < SizeOf(Q) /\ IsPrefix(c, Q)}}

\* The harness runs the engine over the n bytes c.
Runnable(c, n) ==
  IF n <= MaxLen /\ IsRaw(c) THEN TRUE
  ELSE IF n <= 2 * MaxInstr /\ IsAsm(c) THEN TRUE
  ELSE {P \in Scenarios : n = SizeOf(P) /\ IsPrefix(c, P)} # {}

\* main passes 256 (line 251).
InitialCapacities == {1, 256}

\* VM vm (line 299) is an uninitialised local: what its running flag and
\* stack.top hold before vm_init is indeterminate.  Two samples.
GarbageVMs == {[running |-> TRUE, top |-> 5], [running |-> FALSE, top |-> -7]}

\* What a read of the code buffer at or past length may yield: a byte of the
\* allocation never written, or one past its end.
GarbageBytes == {0, UINT8_MAX}

NotExited == -1

NoData == [i \in {} |-> 0]

\* main declares no CallStack, and vm_run uses none.
NoCallStack == [frames |-> NoData, count |-> 0]

Init ==
  /\ pc = "assemble"
  /\ seg \in {code_segment_init(c) : c \in InitialCapacities}
  /\ stack = [data |-> NoData, top |-> 0]
  /\ running = FALSE
  /\ ip = 0
  /\ out = <<>>
  /\ err = <<>>
  /\ exit_code = NotExited
  /\ fetched = <<>>
  /\ cs = NoCallStack
  /\ frame = <<>>
  /\ call = <<>>
  /\ pushed = <<>>

\* main: one code_segment_write call
main_write ==
  /\ pc = "assemble"
  /\ \E b \in NextBytes(seg.code, seg.length) :
       /\ seg' = code_segment_write(seg, b)
       /\ call' = <<"code_segment_write", b>>
  /\ UNCHANGED <<pc, stack, running, ip, out, err, exit_code, fetched>>
  /\ UNCHANGED <<cs, frame, pushed>>

\* main: VM vm;
main_declare_vm ==
  /\ pc = "assemble"
  /\ Runnable(seg.code, seg.length)
  /\ \E g \in GarbageVMs :
       /\ running' = g.running
       /\ stack' = [data |-> NoData, top |-> g.top]
  /\ pc' = "declared"
  /\ UNCHANGED <<seg, ip, out, err, exit_code, fetched>>
  /\ UNCHANGED cvars

\* main: vm_init(&vm, &code)
vm_init ==
  /\ pc = "declared"
  /\ stack' = stack_init(stack)
  /\ running' = FALSE
  /\ pc' = "ready"
  /\ UNCHANGED <<seg, ip, out, err, exit_code, fetched>>
  /\ UNCHANGED cvars

\* vm_run up to the first test of the loop condition
vm_run_enter ==
  /\ pc = "ready"
  /\ running' = TRUE
  /\ ip' = 0
  /\ pc' = "loop"
  /\ UNCHANGED <<seg, stack, out, err, exit_code, fetched>>
  /\ UNCHANGED cvars

-----------------------------------------------------------------------------
(* vm_run's loop: one action per case of the switch.  Each is a whole loop *)
(* iteration: the test of the loop condition, the fetch with ip++, and the *)
(* case's body up to its break or to the exit(1) of a stack fault.         *)

\* while (vm->running && ip < length) { opcode = code[ip++]; ... case op:
Fetch(op) ==
  /\ pc = "loop"
  /\ running
  /\ ip < seg.length
  /\ seg.code[ip] = op
  /\ fetched' = Append(fetched, ip)

\* What code[i] yields.
ReadCode(s, i) == IF i < s.length THEN {s.code[i]} ELSE GarbageBytes

\* The case reached its break with stack s.
Continue(s) ==
  /\ stack' = s
  /\ UNCHANGED <<pc, running, err, exit_code>>

\* A stack operation printed r.fault and called exit(1).
Fatal(r) ==
  /\ stack' = r.stack
  /\ err' = Append(err, r.fault)
  /\ pc' = "exited"
  /\ exit_code' = 1
  /\ UNCHANGED running

\* vm_push(vm, val); break;
Pushed(s, val) ==
  LET r == vm_push(s, val)
  IN  IF r.fault # NoFault THEN Fatal(r) ELSE Continue(r.stack)

\* A build that traps signed overflow (-ftrapv, a sanitizer, idiv on x86)
\* kills the process at the operation.
Trapped(s) ==
  /\ stack' = s
  /\ pc' = "trapped"
  /\ UNCHANGED <<running, err, exit_code>>

\* vm_push(vm, a op b); break;  Signed overflow is undefined behaviour: the
\* build either wraps the result or traps.
Arith(s, overflows, wrapped) ==
  IF overflows THEN Pushed(s, wrapped) \/ Trapped(s) ELSE Pushed(s, wrapped)

\* Mutant: the division by zero is reported and the run goes on.
DivByZero_KeepsRunning(s) ==
  /\ err' = Append(err, "Error: Division by zero")
  /\ stack' = s
  /\ UNCHANGED <<pc, running, exit_code>>

\* if (b == 0) { fprintf(stderr, ...); vm->running = false; break; }
DivByZero(s) ==
  /\ err' = Append(err, "Error: Division by zero")
  /\ running' = FALSE
  /\ stack' = s
  /\ UNCHANGED <<pc, exit_code>>

ExecNop ==
  /\ Fetch(OP_NOP)
  /\ ip' = ip + 1
  /\ UNCHANGED <<seg, stack, pc, running, out, err, exit_code>>
  /\ UNCHANGED cvars

\* Mutant: the immediate is read and the instruction pointer stays on it.
ExecPush_OneByte ==
  /\ Fetch(OP_PUSH)
  /\ ip' = ip + 1
  /\ \E value \in ReadCode(seg, ip + 1) : Pushed(stack, value)
  /\ UNCHANGED <<seg, out>>
  /\ UNCHANGED cvars

ExecPush ==
  /\ Fetch(OP_PUSH)
  /\ ip' = ip + 2
  /\ \E value \in ReadCode(seg, ip + 1) : Pushed(stack, value)
  /\ UNCHANGED <<seg, out>>
  /\ UNCHANGED cvars

ExecPop ==
  /\ Fetch(OP_POP)
  /\ ip' = ip + 1
  /\ LET r == vm_pop(stack)
     IN  IF r.fault # NoFault THEN Fatal(r) ELSE Continue(r.stack)
  /\ UNCHANGED <<seg, out>>
  /\ UNCHANGED cvars

ExecDup ==
  /\ Fetch(OP_DUP)
  /\ ip' = ip + 1
  /\ LET r == stack_peek(stack)
     IN  IF r.fault # NoFault THEN Fatal(r) ELSE Pushed(r.stack, r.val)
  /\ UNCHANGED <<seg, out>>
  /\ UNCHANGED cvars

\* Mutant: the two values are pushed back in the order they had.
ExecSwap_PushesBack ==
  /\ Fetch(OP_SWAP)
  /\ ip' = ip + 1
  /\ LET pa == vm_pop(stack)
         pb == vm_pop(pa.stack)
         a == ToInt32(pa.val)
         b == ToInt32(pb.val)
         rb == vm_push(pb.stack, b)
     IN  IF pa.fault # NoFault THEN Fatal(pa)
         ELSE IF pb.fault # NoFault THEN Fatal(pb)
         ELSE IF rb.fault # NoFault THEN Fatal(rb)
         ELSE Pushed(rb.stack, a)
  /\ UNCHANGED <<seg, out>>
  /\ UNCHANGED cvars

ExecSwap ==
  /\ Fetch(OP_SWAP)
  /\ ip' = ip + 1
  /\ LET pa == vm_pop(stack)
         pb == vm_pop(pa.stack)
         a == ToInt32(pa.val)
         b == ToInt32(pb.val)
         ra == vm_push(pb.stack, a)
     IN  IF pa.fault # NoFault THEN Fatal(pa)
         ELSE IF pb.fault # NoFault THEN Fatal(pb)
         ELSE IF ra.fault # NoFault THEN Fatal(ra)
         ELSE Pushed(ra.stack, b)
  /\ UNCHANGED <<seg, out>>
  /\ UNCHANGED cvars

ExecAdd ==
  /\ Fetch(OP_ADD)
  /\ ip' = ip + 1
  /\ LET pb == vm_pop(stack)
         pa == vm_pop(pb.stack)
         b == ToInt32(pb.val)
         a == ToInt32(pa.val)
     IN  IF pb.fault # NoFault THEN Fatal(pb)
         ELSE IF pa.fault # NoFault THEN Fatal(pa)
         ELSE Arith(pa.stack, AddOverflows(a, b), WrapAdd(a, b))
  /\ UNCHANGED <<seg, out>>
  /\ UNCHANGED cvars

ExecSub ==
  /\ Fetch(OP_SUB)
  /\ ip' = ip + 1
  /\ LET pb == vm_pop(stack)
         pa == vm_pop(pb.stack)
         b == ToInt32(pb.val)
         a == ToInt32(pa.val)
     IN  IF pb.fault # NoFault THEN Fatal(pb)
         ELSE IF pa.fault # NoFault THEN Fatal(pa)
         ELSE Arith(pa.stack, SubOverflows(a, b), WrapSub(a, b))
  /\ UNCHANGED <<seg, out>>
  /\ UNCHANGED cvars

ExecMul ==
  /\ Fetch(OP_MUL)
  /\ ip' = ip + 1
  /\ LET pb == vm_pop(stack)
         pa == vm_pop(pb.stack)
         b == ToInt32(pb.val)
         a == ToInt32(pa.val)
     IN  IF pb.fault # NoFault THEN Fatal(pb)
         ELSE IF pa.fault # NoFault THEN Fatal(pa)
         ELSE Arith(pa.stack, MulOverflows(a, b), WrapMul(a, b))
  /\ UNCHANGED <<seg, out>>
  /\ UNCHANGED cvars

ExecDiv ==
  /\ Fetch(OP_DIV)
  /\ ip' = ip + 1
  /\ LET pb == vm_pop(stack)
         pa == vm_pop(pb.stack)
         b == ToInt32(pb.val)
         a == ToInt32(pa.val)
     IN  IF pb.fault # NoFault THEN Fatal(pb)
         ELSE IF pa.fault # NoFault THEN Fatal(pa)
         ELSE IF b = 0 THEN DivByZero(pa.stack)
         ELSE Arith(pa.stack, DivOverflows(a, b), CDiv(a, b))
  /\ UNCHANGED <<seg, out>>
  /\ UNCHANGED cvars

ExecPrint ==
  /\ Fetch(OP_PRINT)
  /\ ip' = ip + 1
  /\ LET r == vm_pop(stack)
     IN  IF r.fault # NoFault
         THEN Fatal(r) /\ UNCHANGED out
         ELSE Continue(r.stack) /\ out' = Append(out, ToString(ToInt32(r.val)))
  /\ UNCHANGED seg
  /\ UNCHANGED cvars

ExecStop ==
  /\ Fetch(OP_STOP)
  /\ ip' = ip + 1
  /\ running' = FALSE
  /\ UNCHANGED <<seg, stack, pc, out, err, exit_code>>
  /\ UNCHANGED cvars

\* Mutant: the unknown opcode is reported and the run goes on.
ExecDefault_KeepsRunning ==
  /\ \E opcode \in 0 .. UINT8_MAX \ Implemented :
       /\ Fetch(opcode)
       /\ err' = Append(err, "Unknown opcode: " \o ToString(opcode))
  /\ ip' = ip + 1
  /\ UNCHANGED <<seg, stack, pc, running, out, exit_code>>
  /\ UNCHANGED cvars

ExecDefault ==
  /\ \E opcode \in 0 .. UINT8_MAX \ Implemented :
       /\ Fetch(opcode)
       /\ err' = Append(err, "Unknown opcode: " \o ToString(opcode))
  /\ ip' = ip + 1
  /\ running' = FALSE
  /\ UNCHANGED <<seg, stack, pc, out, exit_code>>
  /\ UNCHANGED cvars

\* The loop condition is false: vm_run returns.
vm_run_return ==
  /\ pc = "loop"
  /\ ~(running /\ ip < seg.length)
  /\ pc' = "returned"
  /\ UNCHANGED <<seg, stack, running, ip, out, err, exit_code, fetched>>
  /\ UNCHANGED cvars

\* main after vm_run: printf("Run finished\n"); free(code.code); return 0.
\* free leaves the fields of code as they are.
main_finish ==
  /\ pc = "returned"
  /\ out' = Append(out, "Run finished")
  /\ pc' = "done"
  /\ exit_code' = 0
  /\ UNCHANGED <<seg, stack, running, ip, err, fetched>>
  /\ UNCHANGED cvars

Next ==
  \/ main_write
  \/ main_declare_vm
  \/ vm_init
  \/ vm_run_enter
  \/ ExecNop
  \/ ExecPush
  \/ ExecPop
  \/ ExecDup
  \/ ExecSwap
  \/ ExecAdd
  \/ ExecSub
  \/ ExecMul
  \/ ExecDiv
  \/ ExecPrint
  \/ ExecStop
  \/ ExecDefault
  \/ vm_run_return
  \/ main_finish

Spec == Init /\ [][Next]_vars

\* The program is sequential and nothing suspends it: whenever it has a next
\* step, it takes it.
FairSpec == Spec /\ WF_vars(Next)

-----------------------------------------------------------------------------
(* The call stack.  Neither main nor vm_run calls call_stack_init,         *)
(* call_stack_push or call_stack_pop (the VM holds no CallStack), so they  *)
(* are driven on their own: a CallStack is declared, initialised, and      *)
(* then pushed to and popped from in every order.                          *)

\* The return addresses (size_t) and frame pointers (int32_t) pushed.
ReturnAddrs == {4, 9}

FramePointers == {-1, 2}

\* What count holds in a CallStack that is declared and not initialised.
GarbageCounts == {-2, 7}

\* The VM's variables, which the call stack's functions never touch.
vmvars == <<seg, stack, running, ip, out, fetched>>

CallInit ==
  /\ pc = "cs_declared"
  /\ cs \in {[frames |-> NoData, count |-> g] : g \in GarbageCounts}
  /\ frame = <<>>
  /\ call = <<>>
  /\ pushed = <<>>
  /\ seg = code_segment_init(256)
  /\ stack = [data |-> NoData, top |-> 0]
  /\ running = FALSE
  /\ ip = 0
  /\ out = <<>>
  /\ err = <<>>
  /\ exit_code = NotExited
  /\ fetched = <<>>

\* A call stack function printed fault and called exit(1).
CallFatal(fault) ==
  /\ err' = Append(err, fault)
  /\ pc' = "exited"
  /\ exit_code' = 1
  /\ UNCHANGED <<cs, frame, pushed>>

\* call_stack_init(&cs)
CallStackInit ==
  /\ pc = "cs_declared"
  /\ cs' = call_stack_init(cs)
  /\ call' = <<"call_stack_init">>
  /\ pc' = "cs_ready"
  /\ UNCHANGED <<frame, pushed, err, exit_code, vmvars>>

\* call_stack_push(&cs, return_addr, frame_pointer)
CallStackPush ==
  /\ pc = "cs_ready"
  /\ \E return_addr \in ReturnAddrs, frame_pointer \in FramePointers :
       LET r == call_stack_push(cs, return_addr, frame_pointer)
       IN  /\ call' = <<"call_stack_push", return_addr, frame_pointer>>
           /\ IF r.fault # NoFault THEN CallFatal(r.fault)
              ELSE /\ cs' = r.cs
                   /\ pushed' =
                        Append(pushed, CallFrame(return_addr, frame_pointer))
                   /\ UNCHANGED <<frame, pc, err, exit_code>>
  /\ UNCHANGED vmvars

\* CallFrame f = call_stack_pop(&cs)
CallStackPop ==
  /\ pc = "cs_ready"
  /\ call' = <<"call_stack_pop">>
  /\ LET r == call_stack_pop(cs)
     IN  IF r.fault # NoFault THEN CallFatal(r.fault)
         ELSE /\ cs' = r.cs
              /\ frame' = r.frame
              /\ pushed' = SubSeq(pushed, 1, Len(pushed) - 1)
              /\ UNCHANGED <<pc, err, exit_code>>
  /\ UNCHANGED vmvars

CallNext ==
  \/ CallStackInit
  \/ CallStackPush
  \/ CallStackPop

CallSpec == CallInit /\ [][CallNext]_vars

-----------------------------------------------------------------------------
(* Vocabulary of the properties *)

\* vm_init has run: vm.stack and vm.running are initialised.
Initialised == pc \notin {"assemble", "declared"}

\* The next step is the loop iteration that fetches opcode op.
Executes(op) == pc = "loop" /\ running /\ ip < seg.length /\ seg.code[ip] = op

\* The number of values on the operand stack.
Size(s) == s.top + 1

\* The opcode fetched last.
LastOp == IF fetched = <<>> THEN -1 ELSE seg.code[fetched[Len(fetched)]]

\* The opcodes fetched so far, in order.
Trace == [k \in 1 .. Len(fetched) |-> seg.code[fetched[k]]]

\* How many of the opcodes fetched so far were op.
Count(op) == Cardinality({k \in 1 .. Len(fetched) : seg.code[fetched[k]] = op})

\* Stacks s and t hold the same values in their lowest n slots.
SameBelow(s, t, n) == \A k \in 0 .. n - 1 : t.data[k] = s.data[k]

\* A run that has cleared its flag fetches nothing more: its next step is
\* vm_run's return.
HaltedRunReturns ==
  (pc = "loop" /\ ~running) =>
    /\ pc' = "returned"
    /\ UNCHANGED <<seg, stack, running, ip, out, err, exit_code, fetched>>

-----------------------------------------------------------------------------
(* C1: from vm_init on, in every state of every run, the operand stack's   *)
(* top index lies in -1 .. STACK_MAX_SIZE - 1; it is -1 right after        *)
(* stack_init, when the stack holds nothing; the slots 0 .. top have all   *)
(* been written, and nothing was written outside the array.                *)
C1_TopInRange ==
  Initialised =>
    /\ stack.top \in -1 .. STACK_MAX_SIZE - 1
    /\ pc = "ready" => stack.top = -1
    /\ 0 .. stack.top \subseteq DOMAIN stack.data
    /\ DOMAIN stack.data \subseteq 0 .. STACK_MAX_SIZE - 1

\* A push was refused on a full stack: top is at its upper limit.
C1_Witness ==
  /\ pc = "exited"
  /\ stack.top = STACK_MAX_SIZE - 1
  /\ err = <<"Stack overflow ">>

-----------------------------------------------------------------------------
(* C2: the LIFO law of PUSH and POP.  A PUSH on a stack that is not full   *)
(* adds its immediate on top of the values already there, which stay as    *)
(* they are; a POP on a stack that is not empty removes the top value and  *)
(* nothing else, so the value it removes is that of the latest PUSH not    *)
(* yet popped; and after any fault-free run of PUSH and POP opcodes only   *)
(* the stack holds as many values as PUSHes minus POPs were executed.      *)
C2_PushStep ==
  (Executes(OP_PUSH) /\ ~stack_isFull(stack) /\ ip + 1 < seg.length) =>
    /\ Size(stack') = Size(stack) + 1
    /\ stack'.data[stack'.top] = seg.code[ip + 1]
    /\ SameBelow(stack, stack', Size(stack))
    /\ pc' = "loop"

C2_PopStep ==
  (Executes(OP_POP) /\ ~stack_isEmpty(stack)) =>
    /\ Size(stack') = Size(stack) - 1
    /\ SameBelow(stack, stack', Size(stack) - 1)
    /\ pc' = "loop"

C2_SizeIsPushesMinusPops ==
  (/\ pc \in {"loop", "returned"}
   /\ \A k \in 1 .. Len(fetched) : Trace[k] \in {OP_PUSH, OP_POP})
    => Size(stack) = Count(OP_PUSH) - Count(OP_POP)

\* C2: every step obeys the PUSH and POP laws, and in every state after a
\* fault-free run of PUSH and POP only the size is pushes minus pops.
C2_Lifo ==
  /\ [][C2_PushStep /\ C2_PopStep]_vars
  /\ []C2_SizeIsPushesMinusPops

\* Two pushes and a pop have run without a fault, leaving the first value.
C2_Witness ==
  /\ pc = "loop"
  /\ Trace = <<OP_PUSH, OP_PUSH, OP_POP>>
  /\ Size(stack) = 1
  /\ stack.data[0] = seg.code[1]
  /\ seg.code[1] # seg.code[3]

-----------------------------------------------------------------------------
(* C3: ADD, SUB, MUL and DIV with a non-zero divisor, executed on n >= 2   *)
(* values with b on top and a beneath it, leave n - 1 values: the lower    *)
(* n - 2 unchanged and a+b, a-b, a*b or a/b on top, the deeper value a the *)
(* left operand.  Original statement: the result is the exact sum,         *)
(* difference, product or quotient (quotient truncated toward zero), which *)
(* no 32-bit slot holds when it lies outside the int32_t range.            *)
Operands(s) == [a |-> s.data[s.top - 1], b |-> s.data[s.top]]

\* The step leaves n - 1 values with r on top and the rest as they were.
Replaced(s, t, r) ==
  /\ Size(t) = Size(s) - 1
  /\ t.data[t.top] = r
  /\ SameBelow(s, t, Size(s) - 2)
  /\ pc' = "loop"
  /\ running'

\* The step leaves n - 1 values with the quotient of a by b, truncated
\* toward zero, on top: a = q * b + r with |r| < |b| and r of a's sign.
Divided(s, t, a, b) ==
  LET q == t.data[t.top]
      r == a - q * b
  IN  /\ Size(t) = Size(s) - 1
      /\ SameBelow(s, t, Size(s) - 2)
      /\ pc' = "loop"
      /\ running'
      /\ IF a >= 0 THEN r >= 0 ELSE r <= 0
      /\ IF b > 0 THEN r < b /\ -b < r ELSE b < r /\ b < -r

C3_Exact ==
  LET a == Operands(stack).a
      b == Operands(stack).b
  IN  /\ (Executes(OP_ADD) /\ Size(stack) >= 2) =>
           ~AddOverflows(a, b) /\ Replaced(stack, stack', a + b)
      /\ (Executes(OP_SUB) /\ Size(stack) >= 2) =>
           ~SubOverflows(a, b) /\ Replaced(stack, stack', a - b)
      /\ (Executes(OP_MUL) /\ Size(stack) >= 2) =>
           ~MulOverflows(a, b) /\ Replaced(stack, stack', a * b)
      /\ (Executes(OP_DIV) /\ Size(stack) >= 2 /\ b # 0) =>
           ~DivOverflows(a, b) /\ Divided(stack, stack', a, b)

C3_InRange ==
  LET a == Operands(stack).a
      b == Operands(stack).b
  IN  /\ (Executes(OP_ADD) /\ Size(stack) >= 2 /\ ~AddOverflows(a, b)) =>
           Replaced(stack, stack', a + b)
      /\ (Executes(OP_SUB) /\ Size(stack) >= 2 /\ ~SubOverflows(a, b)) =>
           Replaced(stack, stack', a - b)
      /\ (Executes(OP_MUL) /\ Size(stack) >= 2 /\ ~MulOverflows(a, b)) =>
           Replaced(stack, stack', a * b)
      /\ (/\ Executes(OP_DIV) /\ Size(stack) >= 2 /\ b # 0
          /\ ~DivOverflows(a, b)) =>
           Divided(stack, stack', a, b)

-----------------------------------------------------------------------------
(* C4: DIV with 0 on top of at least two values reports "Error: Division   *)
(* by zero", removes both operands and pushes nothing, clears the running  *)
(* flag and leaves the process alive; the run then fetches nothing more.   *)
(* Over [PUSH 10, PUSH 0, DIV, PRINT, STOP] the PRINT is never fetched,    *)
(* nothing is printed by the engine, and main goes on to return.           *)
C4_DivZeroStep ==
  (Executes(OP_DIV) /\ Size(stack) >= 2 /\ stack.data[stack.top] = 0) =>
    /\ err' = Append(err, "Error: Division by zero")
    /\ Size(stack') = Size(stack) - 2
    /\ SameBelow(stack, stack', Size(stack) - 2)
    /\ ~running'
    /\ pc' = "loop"
    /\ exit_code' = NotExited
    /\ out' = out

C4_Reference ==
  (seg.code = DivZeroProgram /\ Initialised) =>
    /\ pc \notin {"exited", "trapped"}
    /\ \A k \in 1 .. Len(fetched) : Trace[k] # OP_PRINT
    /\ pc \in {"returned", "done"} =>
         /\ Trace = <<OP_PUSH, OP_PUSH, OP_DIV>>
         /\ err = <<"Error: Division by zero">>
         /\ out = IF pc = "done" THEN <<"Run finished">> ELSE <<>>
         /\ ~running
         /\ Size(stack) = 0

\* C4: every DIV by zero halts the run as described, a halted run fetches
\* nothing more, and the reference program ends without its PRINT.
C4_DivByZero ==
  /\ [][C4_DivZeroStep /\ HaltedRunReturns]_vars
  /\ []C4_Reference

\* main has returned 0 after the run over the reference program.
C4_Witness ==
  /\ seg.code = DivZeroProgram
  /\ pc = "done"
  /\ exit_code = 0
  /\ err = <<"Error: Division by zero">>

-----------------------------------------------------------------------------
(* C5: the run over [PUSH 5, PUSH 4, ADD, PRINT, STOP] from the initial    *)
(* state prints exactly one value, 9, and returns with the running flag    *)
(* false, the operand stack empty and no diagnostic.                       *)
C5_MainProgram ==
  (seg.code = MainProgram /\ Initialised) =>
    /\ pc \notin {"exited", "trapped"}
    /\ err = <<>>
    /\ pc \in {"ready", "loop"} => out \in {<<>>, <<"9">>}
    /\ pc = "returned" =>
         /\ out = <<"9">>
         /\ ~running
         /\ Size(stack) = 0
         /\ Trace = <<OP_PUSH, OP_PUSH, OP_ADD, OP_PRINT, OP_STOP>>
         /\ exit_code = NotExited

\* vm_run has returned from the run over main's program.
C5_Witness ==
  /\ seg.code = MainProgram
  /\ pc = "returned"
  /\ out = <<"9">>

-----------------------------------------------------------------------------
(* C6: a PUSH on a full stack prints "Stack overflow" and exits with the   *)
(* stack as it was.  The program of STACK_MAX_SIZE + 1 PUSHes, run from an *)
(* empty stack, stores one value per PUSH until the stack holds            *)
(* STACK_MAX_SIZE values, and faults on its last PUSH: at the fault the    *)
(* stack holds exactly the first STACK_MAX_SIZE immediates, the extra      *)
(* value was stored nowhere and top is STACK_MAX_SIZE - 1.                 *)
Overflowed ==
  /\ pc = "exited"
  /\ err # <<>>
  /\ err[Len(err)] = "Stack overflow "

C6_PushOnFull ==
  (Executes(OP_PUSH) /\ Size(stack) = STACK_MAX_SIZE) =>
    /\ pc' = "exited"
    /\ exit_code' = 1
    /\ err' = Append(err, "Stack overflow ")
    /\ stack' = stack

C6_AtFault ==
  /\ Overflowed =>
       /\ stack.top = STACK_MAX_SIZE - 1
       /\ DOMAIN stack.data = 0 .. STACK_MAX_SIZE - 1
  /\ (seg.code = PushProgram /\ Initialised) =>
       /\ pc \notin {"returned", "done", "trapped"}
       /\ pc = "loop" =>
            /\ Len(fetched) <= STACK_MAX_SIZE
            /\ Size(stack) = Len(fetched)
            /\ err = <<>>
       /\ pc = "exited" =>
            /\ Overflowed
            /\ Len(fetched) = STACK_MAX_SIZE + 1
            /\ \A k \in 0 .. STACK_MAX_SIZE - 1 :
                 stack.data[k] = PushProgram[2 * k + 1]

\* C6: every PUSH on a full stack faults with the stack unchanged, and the
\* program of STACK_MAX_SIZE + 1 PUSHes faults on its last PUSH.
C6_StackOverflow ==
  /\ [][C6_PushOnFull]_vars
  /\ []C6_AtFault

\* The last PUSH of the program has faulted.
C6_Witness ==
  /\ seg.code = PushProgram
  /\ Overflowed
  /\ Len(fetched) = STACK_MAX_SIZE + 1

-----------------------------------------------------------------------------
(* C7: POP on an empty stack prints "Stack Underflow" and exits; at the    *)
(* exit top is still -1 and the stack contents, the running flag, the code *)
(* segment and the output are what they were when the opcode was fetched;  *)
(* only the instruction pointer has moved, past the opcode.                *)
C7_PopEmptyStep ==
  (Executes(OP_POP) /\ stack.top = -1) =>
    /\ pc' = "exited"
    /\ exit_code' = 1
    /\ err' = Append(err, "Stack Underflow ")
    /\ stack' = stack
    /\ running' = running
    /\ seg' = seg
    /\ out' = out
    /\ ip' = ip + 1

\* C7: every POP on the empty stack is the underflow fault, with the engine
\* state otherwise unchanged.
C7_PopEmpty == [][C7_PopEmptyStep]_vars

\* A POP has faulted on the empty stack.
C7_Witness ==
  /\ pc = "exited"
  /\ LastOp = OP_POP
  /\ err = <<"Stack Underflow ">>
  /\ stack.top = -1

-----------------------------------------------------------------------------
(* C8: JZ, executed with a value on the stack, jumps to its immediate      *)
(* target iff the popped value is 0, and JNZ iff it is not 0; either       *)
(* removes exactly one value whether or not it jumps, and the run goes on. *)
C8_BranchStep ==
  LET v == stack.data[stack.top]
      target == seg.code[ip + 1]
      popped == /\ Size(stack') = Size(stack) - 1
                /\ SameBelow(stack, stack', Size(stack) - 1)
                /\ running'
                /\ pc' = "loop"
  IN  /\ (Executes(OP_JZ) /\ Size(stack) >= 1 /\ ip + 1 < seg.length) =>
           popped /\ ip' = IF v = 0 THEN target ELSE ip + 2
      /\ (Executes(OP_JNZ) /\ Size(stack) >= 1 /\ ip + 1 < seg.length) =>
           popped /\ ip' = IF v # 0 THEN target ELSE ip + 2

\* C8: every JZ and JNZ step pops one value and branches on it.
C8_Branches == [][C8_BranchStep]_vars

-----------------------------------------------------------------------------
(* C9: a CALL whose target holds a RET transfers control to the target     *)
(* with the operand stack unchanged and the run going on, and once the run *)
(* is over the opcode fetched after that CALL is the RET and the one after *)
(* it is at the offset that follows the CALL's immediate.                  *)
CallsRet(i) ==
  /\ seg.code[i] = OP_CALL
  /\ i + 2 < seg.length
  /\ seg.code[i + 1] < seg.length
  /\ seg.code[seg.code[i + 1]] = OP_RET

C9_CallStep ==
  (Executes(OP_CALL) /\ CallsRet(ip)) =>
    /\ ip' = seg.code[ip + 1]
    /\ stack' = stack
    /\ running'
    /\ pc' = "loop"

C9_ReturnedAfterCall ==
  pc \in {"returned", "done"} =>
    \A k \in 1 .. Len(fetched) :
      CallsRet(fetched[k]) =>
        /\ Len(fetched) >= k + 2
        /\ fetched[k + 1] = seg.code[fetched[k] + 1]
        /\ fetched[k + 2] = fetched[k] + 2

\* C9: every CALL to a RET jumps to it, and the run resumes after the CALL.
C9_CallRet ==
  /\ [][C9_CallStep]_vars
  /\ []C9_ReturnedAfterCall

-----------------------------------------------------------------------------
(* C10: a fetched byte with no case in the switch (JMP, JZ, JNZ, CALL,     *)
(* RET, LOAD, STORE and every value from 18 up) makes the engine print     *)
(* "Unknown opcode: <byte>", clear the running flag and leave the operand  *)
(* stack as it is; the process stays alive, the run fetches nothing more   *)
(* and vm_run returns.                                                     *)
NoCase == (OP_JMP .. OP_STORE) \cup (OP_STOP + 1 .. UINT8_MAX)

C10_UnknownStep ==
  (pc = "loop" /\ running /\ ip < seg.length /\ seg.code[ip] \in NoCase) =>
    /\ err' = Append(err, "Unknown opcode: " \o ToString(seg.code[ip]))
    /\ ~running'
    /\ stack' = stack
    /\ out' = out
    /\ pc' = "loop"
    /\ exit_code' = NotExited

C10_AtReturn ==
  (pc = "returned" /\ LastOp \in NoCase) =>
    /\ ~running
    /\ exit_code = NotExited
    /\ err = <<"Unknown opcode: " \o ToString(LastOp)>>

-----------------------------------------------------------------------------
(* C11: the running flag follows Stopped -> Running -> Stopped: it is      *)
(* false after vm_init, true when vm_run starts looping and at the start   *)
(* of every loop iteration, and false once vm_run has returned, whichever  *)
(* way the loop ended.                                                     *)

\* This step is one iteration of vm_run's loop.
Iterates == pc = "loop" /\ fetched' # fetched

C11_LoopStep ==
  /\ (pc = "ready" /\ pc' = "loop") => running'
  /\ Iterates => running

\* vm_run has returned (main may have finished since).
Returned == pc \in {"returned", "done"}

\* C11: the run flag is false after vm_init, true while vm_run loops and
\* false whenever vm_run has returned.
C11_RunFlag ==
  /\ [](pc = "ready" => ~running)
  /\ [][C11_LoopStep]_vars
  /\ [](Returned => ~running)

-----------------------------------------------------------------------------
(* C12: vm_run ends over every segment, and only because a STOP was        *)
(* executed, a run-level fault occurred (division by zero, unknown         *)
(* opcode), a fatal stack fault ended the process, or the instruction      *)
(* pointer reached or passed the segment's length; every loop iteration    *)
(* strictly increases the instruction pointer.                             *)

\* The last line written to the error stream.
LastErr == IF err = <<>> THEN "" ELSE err[Len(err)]

StackFaults == {"Stack overflow ", "Stack Underflow ", "Empty Stack "}

\* vm_run is over: it returned, or the process ended inside it.
Ended == pc \in {"returned", "done", "exited", "trapped"}

C12_IpStep == Iterates => ip' > ip

C12_Reason ==
  \/ ~running /\ LastOp = OP_STOP
  \/ ~running /\ LastOp = OP_DIV /\ LastErr = "Error: Division by zero"
  \/ ~running /\ LastOp \in NoCase
       /\ LastErr = "Unknown opcode: " \o ToString(LastOp)
  \/ pc = "exited" /\ LastErr \in StackFaults
  \/ ip >= seg.length

C12_EndsForReason == Ended => C12_Reason

\* Every run of the loop ends.
C12_Terminates == (pc = "loop") ~> Ended

\* Every iteration moves the instruction pointer forward.
C12_IpIncreases == [][C12_IpStep]_vars

\* C12: vm_run eventually ends, only for one of the listed reasons, and the
\* instruction pointer strictly increases on every loop iteration.
C12_RunEnds ==
  /\ C12_Terminates
  /\ []C12_EndsForReason
  /\ C12_IpIncreases

-----------------------------------------------------------------------------
(* C13: from code_segment_init with a positive capacity on, through every  *)
(* code_segment_write, length <= capacity in every state, and each write   *)
(* stores its byte at an index below the capacity in force when it stores. *)

\* This step is one code_segment_write call.
Writes == pc = "assemble" /\ seg' # seg

\* code[length++] = byte stores at the old length, after any growth.
C13_WriteStep == Writes => seg.length < seg'.capacity

C13_Bounded ==
  /\ seg.capacity > 0
  /\ seg.length <= seg.capacity
  /\ DOMAIN seg.code = 0 .. seg.length - 1

\* C13: length <= capacity in every state, and every byte is written at an
\* index strictly below the capacity in force at the time of the write.
C13_LengthWithinCapacity ==
  /\ []C13_Bounded
  /\ [][C13_WriteStep]_vars

\* A segment created with capacity 1 has grown three times and is full again.
C13_Witness ==
  /\ pc = "assemble"
  /\ seg.capacity = 8
  /\ seg.length = 8

-----------------------------------------------------------------------------
(* C14: from call_stack_init on, over every sequence of call_stack_push    *)
(* and call_stack_pop, 0 <= count <= CALL_STACK_MAX; a push at count =     *)
(* CALL_STACK_MAX and a pop at count = 0 print their diagnostic and exit   *)
(* with count and the frames unchanged; every other pop returns the frame  *)
(* of the most recent push not yet popped.                                 *)

\* This step is a call of the function named f.
Calls(f) == pc = "cs_ready" /\ call' # <<>> /\ call'[1] = f

\* The step printed line and ended the process, the call stack unchanged.
FaultsWith(line) ==
  /\ err' = Append(err, line)
  /\ pc' = "exited"
  /\ exit_code' = 1
  /\ cs' = cs

C14_CountInRange ==
  pc # "cs_declared" =>
    /\ cs.count \in 0 .. CALL_STACK_MAX
    /\ DOMAIN cs.frames \subseteq 0 .. CALL_STACK_MAX - 1
    /\ Len(pushed) = cs.count

C14_PushStep ==
  Calls("call_stack_push") =>
    IF cs.count = CALL_STACK_MAX THEN FaultsWith("Call stack overflow")
    ELSE /\ cs'.count = cs.count + 1
         /\ cs'.frames[cs.count] = CallFrame(call'[2], call'[3])
         /\ \A k \in 0 .. cs.count - 1 : cs'.frames[k] = cs.frames[k]
         /\ pc' = "cs_ready"
         /\ err' = err

C14_PopStep ==
  Calls("call_stack_pop") =>
    IF cs.count = 0 THEN FaultsWith("Call stack underflow")
    ELSE /\ cs'.count = cs.count - 1
         /\ cs'.frames = cs.frames
         /\ frame' = <<pushed[Len(pushed)]>>
         /\ pc' = "cs_ready"
         /\ err' = err

\* C14: count stays in 0 .. CALL_STACK_MAX, overflow and underflow are
\* fatal and change nothing, and a pop returns the most recent live push.
C14_CallStack ==
  /\ []C14_CountInRange
  /\ [][C14_PushStep /\ C14_PopStep]_vars

\* Frames were pushed up to the capacity and two were popped: the second pop
\* returned the frame under the one popped first, whose slot is left as is.
C14_Witness ==
  /\ pc = "cs_ready"
  /\ call = <<"call_stack_pop">>
  /\ cs.count = CALL_STACK_MAX - 2
  /\ DOMAIN cs.frames = 0 .. CALL_STACK_MAX - 1
  /\ frame = <<CallFrame(9, -1)>>
  /\ cs.frames[CALL_STACK_MAX - 1] = CallFrame(4, 2)
  /\ cs.frames[CALL_STACK_MAX - 2] = CallFrame(9, -1)

-----------------------------------------------------------------------------
(* C15: whenever a run ends otherwise than by executing STOP or by the     *)
(* instruction pointer reaching the length, a diagnostic line has been     *)
(* written to the error stream before vm_run is left or the process ends.  *)

\* The loop iteration of this step ended the run: it cleared the running
\* flag or ended the process.
EndsRun == Iterates /\ (~running' \/ pc' # "loop")

\* The step wrote one line to the error stream.
Diagnoses == Len(err') = Len(err) + 1 /\ SubSeq(err', 1, Len(err)) = err

C15_FaultStep == (EndsRun /\ seg.code[ip] # OP_STOP) => Diagnoses

\* The process ended inside vm_run.
Killed == pc \in {"exited", "trapped"}

\* C15: every ending of a run other than STOP or the end of the segment has
\* written a diagnostic line first.
C15_Diagnosed ==
  /\ [][C15_FaultStep]_vars
  /\ [](Killed => err # <<>>)

-----------------------------------------------------------------------------
(* C16: SWAP on n >= 2 values leaves n values, the top two exchanged and   *)
(* the n-2 below unchanged; a second SWAP right after restores the stack;  *)
(* on fewer than 2 values SWAP ends in the fatal underflow fault.          *)

\* Stack t is stack s with its two topmost values exchanged.
Exchanged(s, t) ==
  /\ t.top = s.top
  /\ t.data[t.top] = s.data[s.top - 1]
  /\ t.data[t.top - 1] = s.data[s.top]
  /\ SameBelow(s, t, Size(s) - 2)

C16_SwapStep ==
  Executes(OP_SWAP) =>
    IF Size(stack) >= 2
    THEN /\ Exchanged(stack, stack')
         /\ pc' = "loop"
         /\ running'
         /\ err' = err
    ELSE /\ pc' = "exited"
         /\ exit_code' = 1
         /\ err' = Append(err, "Stack Underflow ")

\* The stack holding the values of t, lowest first, and nothing else.
StackOf(t) == [data |-> Bytes0(t), top |-> Len(t) - 1]

\* SwapProgram: the stack before its first SWAP, after it, and after the
\* second.
C16_SwapTwice ==
  seg.code = SwapProgram =>
    /\ Len(fetched) = 3 => stack = StackOf(<<1, 2, 3>>)
    /\ Len(fetched) = 4 => stack = StackOf(<<1, 3, 2>>)
    /\ Len(fetched) = 5 => stack = StackOf(<<1, 2, 3>>)

\* C16: SWAP exchanges the top two values and leaves the rest, two SWAPs in
\* a row restore the stack, and SWAP on fewer than 2 values is fatal.
C16_Swap ==
  /\ [][C16_SwapStep]_vars
  /\ []C16_SwapTwice

\* SwapProgram has run to its end: two SWAPs restored three values, and the
\* SWAP over the one value left ended in the underflow fault.
C16_Witness ==
  /\ seg.code = SwapProgram
  /\ Len(fetched) = 8
  /\ pc = "exited"
  /\ err = <<"Stack Underflow ">>
  /\ stack.data = Bytes0(<<1, 2, 3>>)

-----------------------------------------------------------------------------
(* C17: DUP on n values, 1 <= n < STACK_MAX_SIZE, leaves n + 1 values, the *)
(* two topmost equal to the former top and the n - 1 below unchanged; on   *)
(* an empty stack DUP is the fatal "Empty Stack" fault and on a full stack *)
(* the fatal "Stack overflow" fault, both leaving the stack as it was.     *)

\* The step printed line and exited with status 1, the stack unchanged.
FatalUnchanged(line) ==
  /\ pc' = "exited"
  /\ exit_code' = 1
  /\ err' = Append(err, line)
  /\ stack' = stack

C17_DupStep ==
  Executes(OP_DUP) =>
    IF Size(stack) = 0 THEN FatalUnchanged("Empty Stack ")
    ELSE IF Size(stack) = STACK_MAX_SIZE THEN FatalUnchanged("Stack overflow ")
    ELSE /\ Size(stack') = Size(stack) + 1
         /\ stack'.data[stack'.top] = stack.data[stack.top]
         /\ stack'.data[stack'.top - 1] = stack.data[stack.top]
         /\ SameBelow(stack, stack', Size(stack) - 1)
         /\ pc' = "loop"
         /\ running'
         /\ err' = err

\* C17: DUP copies the top value onto the stack, and is fatal, changing
\* nothing, on an empty and on a full stack.
C17_Dup == [][C17_DupStep]_vars

\* DupProgram has run to its end: the DUPs filled the stack with copies of
\* the value pushed, and the last DUP met the full stack.
C17_Witness ==
  /\ seg.code = DupProgram
  /\ Len(fetched) = STACK_MAX_SIZE + 1
  /\ pc = "exited"
  /\ err = <<"Stack overflow ">>
  /\ Size(stack) = STACK_MAX_SIZE
  /\ \A k \in 0 .. STACK_MAX_SIZE - 1 : stack.data[k] = 7

-----------------------------------------------------------------------------
(* C18: a PUSH fetched at offset i pushes the byte at offset i + 1 and     *)
(* the next opcode is fetched from offset i + 2: a byte in immediate       *)
(* position is never dispatched, whatever its value.  Every other          *)
(* implemented opcode advances the instruction pointer by exactly 1.       *)

C18_PushStep ==
  Executes(OP_PUSH) =>
    /\ ip' = ip + 2
    /\ (ip + 1 < seg.length /\ ~stack_isFull(stack)) =>
         /\ Size(stack') = Size(stack) + 1
         /\ stack'.data[stack'.top] = seg.code[ip + 1]
         /\ SameBelow(stack, stack', Size(stack))
         /\ running'
         /\ pc' = "loop"
         /\ err' = err
         /\ out' = out

C18_OtherStep ==
  \A op \in Implemented \ {OP_PUSH} : Executes(op) => ip' = ip + 1

\* The offsets opcodes were fetched from are those of the linear decoding:
\* 0 first, and after offset i, i + 2 if it holds PUSH and i + 1 if not.
C18_LinearFetch ==
  \A k \in 1 .. Len(fetched) :
    fetched[k] =
      IF k = 1 THEN 0
      ELSE fetched[k - 1] + (IF seg.code[fetched[k - 1]] = OP_PUSH THEN 2 ELSE 1)

\* C18: PUSH pushes the byte after it and skips it; no immediate is ever
\* dispatched as an opcode; every other implemented opcode advances by 1.
C18_Immediate ==
  /\ [][C18_PushStep /\ C18_OtherStep]_vars
  /\ []C18_LinearFetch

\* Two PUSHes whose immediates are the numbers of OP_STOP and OP_DIV have
\* run, and the opcode after them has been fetched: the run goes on.
C18_Witness ==
  /\ pc = "loop"
  /\ running
  /\ fetched = <<0, 2, 4>>
  /\ seg.code[1] = OP_STOP
  /\ seg.code[3] = OP_DIV
  /\ stack = StackOf(<<OP_STOP, OP_DIV>>)
  /\ err = <<>>

-----------------------------------------------------------------------------
(* C19: code_segment_write(b) on a segment of length L makes the length    *)
(* L + 1, stores b at index L, leaves the bytes below L as they were, and  *)
(* changes the capacity only when L equals it, to exactly twice its value; *)
(* so the bytes written to a fresh segment are its code, in order, however *)
(* often it grew.                                                          *)

C19_WriteStep ==
  Writes =>
    /\ call'[1] = "code_segment_write"
    /\ seg'.length = seg.length + 1
    /\ seg'.code[seg.length] = call'[2]
    /\ \A i \in 0 .. seg.length - 1 : seg'.code[i] = seg.code[i]
    /\ seg'.capacity =
         IF seg.length = seg.capacity THEN 2 * seg.capacity ELSE seg.capacity

\* The segment after code_segment_write of each byte of the tuple t, in
\* order, to segment s.
RECURSIVE WriteAll(_, _)
WriteAll(s, t) ==
  IF t = <<>> THEN s ELSE WriteAll(code_segment_write(s, Head(t)), Tail(t))

\* The bytes of the 0-based array c, as a tuple.
BytesOf(c) == [k \in 1 .. SizeOf(c) |-> c[k - 1]]

\* Writing the bytes the segment holds to a fresh segment, of either
\* initial capacity, gives a segment holding them in the same order.
C19_FreshSegment ==
  pc = "assemble" =>
    \A c \in InitialCapacities :
      LET s == WriteAll(code_segment_init(c), BytesOf(seg.code))
      IN  /\ s.code = seg.code
          /\ s.length = seg.length

\* C19: each write appends its byte and changes nothing else but, when the
\* segment is full, the capacity, which doubles; the bytes written in order
\* are the segment's code.
C19_Write ==
  /\ [][C19_WriteStep]_vars
  /\ []C19_FreshSegment

\* A segment created with capacity 1 holds the 24 bytes of
\* DivOverflowProgram after growing five times.
C19_Witness ==
  /\ pc = "declared"
  /\ seg.code = DivOverflowProgram
  /\ seg.length = 24
  /\ seg.capacity = 32

-----------------------------------------------------------------------------
(* C20: every byte vm_run reads from the code segment, as an opcode or as  *)
(* a PUSH immediate, is at an offset below the segment's length, also when *)
(* PUSH is the segment's last byte.                                        *)

\* Opcodes are read at the offsets of fetched.
C20_OpcodeInBounds == \A k \in 1 .. Len(fetched) : fetched[k] < seg.length

\* OP_PUSH reads its immediate at the offset after its opcode's.
C20_ImmediateStep == Executes(OP_PUSH) => ip + 1 < seg.length

\* C20: no read of the code segment is at or past its length.
C20_ReadsInBounds ==
  /\ []C20_OpcodeInBounds
  /\ [][C20_ImmediateStep]_vars

=============================================================================
